---- MODULE Spec2Model ----
(***************************************************************************)
(* A model of src/app.py: the /search endpoint of the search proxy.  One   *)
(* request runs through the fallback chain of search_web (DuckDuckGo,      *)
(* Brave, Google) and then through the enrichment loop of search_endpoint. *)
(*                                                                         *)
(* Text that the code inspects character by character (hrefs, urls,        *)
(* snippets, extracted page text) is a sequence of one-character strings.  *)
(* An Optional value is a set: {} is None and {v} is the value v.          *)
(***************************************************************************)
EXTENDS Integers, Sequences, FiniteSets, TLC

(***************************************************************************)
(* Bounds of the model.                                                    *)
(***************************************************************************)
\* the longest backend page, in result containers
MaxBlocks == 2
\* the largest value of k and of max_results (the code allows 1..10)
MaxK == 2
\* the longest text trafilatura extracts from a page, in characters
MaxText == 3
\* the largest configured MAX_PAGE_CHARS besides the default
MaxBudget == 2

\* MAX_PAGE_CHARS when the environment does not set it
DefaultMaxPageChars == 4000

(***************************************************************************)
(* Strings as character sequences.                                         *)
(***************************************************************************)
None == {}
Some(v) == {v}
TheValue(opt) == CHOOSE v \in opt : TRUE

\* str.startswith
StartsWith(s, p) == Len(s) >= Len(p) /\ SubSeq(s, 1, Len(p)) = p

\* the test `p in s` on strings
Contains(s, p) ==
    \E i \in 1..(Len(s) - Len(p) + 1) : SubSeq(s, i, i + Len(p) - 1) = p

\* str.find(c) + 1: the first position of character c in s, 0 when absent
Find(s, c) ==
    IF \E i \in 1..Len(s) : s[i] = c
    THEN CHOOSE i \in 1..Len(s) : s[i] = c /\ \A j \in 1..(i - 1) : s[j] # c
    ELSE 0

\* the first position of any character of cs in s at or after from, else Len(s)+1
FindAny(s, cs, from) ==
    IF \E i \in from..Len(s) : s[i] \in cs
    THEN CHOOSE i \in from..Len(s) :
             s[i] \in cs /\ \A j \in from..(i - 1) : s[j] \notin cs
    ELSE Len(s) + 1

\* s[i:] with i counted from 1
From(s, i) == SubSeq(s, i, Len(s))

\* the slice s[:n] of Python, for any integer n
Slice(s, n) ==
    IF n >= 0
    THEN SubSeq(s, 1, IF n < Len(s) THEN n ELSE Len(s))
    ELSE SubSeq(s, 1, IF Len(s) + n > 0 THEN Len(s) + n ELSE 0)

\* str.split(c)
RECURSIVE Split(_, _)
Split(s, c) ==
    LET i == Find(s, c)
    IN  IF i = 0 THEN <<s>>
        ELSE <<SubSeq(s, 1, i - 1)>> \o Split(From(s, i + 1), c)

\* str.replace('+', ' ')
PlusToSpace(s) == [i \in 1..Len(s) |-> IF s[i] = "+" THEN " " ELSE s[i]]

(***************************************************************************)
(* urllib.parse, as far as search_duckduckgo uses it.                      *)
(***************************************************************************)
\* the characters of the model's alphabet that no URL scheme may hold
NonSchemeChars == {":", "/", "?", "#", "&", "=", "%", "[", "]", " "}

\* the percent escapes of the model's alphabet: two hex digits -> character
HexDecode(a, b) ==
    CASE <<a, b>> = <<"3", "A">> -> ":"
      [] <<a, b>> = <<"2", "F">> -> "/"
      [] <<a, b>> = <<"3", "F">> -> "?"
      [] <<a, b>> = <<"2", "6">> -> "&"
      [] <<a, b>> = <<"3", "D">> -> "="
      [] <<a, b>> = <<"2", "3">> -> "#"
      [] OTHER -> ""

\* unquote that decodes nothing
UnquoteNothing(s) == s

\* urllib.parse.unquote: every %XX with two hex digits becomes its character,
\* any other % stays
RECURSIVE Unquote(_)
Unquote(s) ==
    IF s = <<>> THEN <<>>
    ELSE IF s[1] = "%" /\ Len(s) >= 3 /\ HexDecode(s[2], s[3]) # ""
         THEN <<HexDecode(s[2], s[3])>> \o Unquote(From(s, 4))
         ELSE <<s[1]>> \o Unquote(Tail(s))

\* urlsplit: the url after its scheme, if it has one, is cut off
AfterScheme(url) ==
    LET i == Find(url, ":")
    IN  IF i > 1 /\ \A j \in 1..(i - 1) : url[j] \notin NonSchemeChars
        THEN From(url, i + 1)
        ELSE url

\* urlsplit: the netloc, "" when the url has none
Netloc(url) ==
    LET u == AfterScheme(url)
    IN  IF StartsWith(u, <<"/", "/">>)
        THEN SubSeq(u, 3, FindAny(u, {"/", "?", "#"}, 3) - 1)
        ELSE <<>>

\* urlsplit raises ValueError("Invalid IPv6 URL") on a netloc with one bracket
UrlparseRaises(url) ==
    LET n == Netloc(url)
        open == \E i \in 1..Len(n) : n[i] = "["
        close == \E i \in 1..Len(n) : n[i] = "]"
    IN  (open /\ ~close) \/ (close /\ ~open)

\* urlparse(url).query: what follows the first "?" of the part before "#"
UrlQuery(url) ==
    LET h == Find(url, "#")
        u == IF h = 0 THEN url ELSE SubSeq(url, 1, h - 1)
        q == Find(u, "?")
    IN  IF q = 0 THEN <<>> ELSE From(u, q + 1)

\* parse_qsl: the (name, value) pairs of a query, blank values left out
RECURSIVE QslPairs(_)
QslPairs(fields) ==
    IF fields = <<>> THEN <<>>
    ELSE LET f == Head(fields)
             e == Find(f, "=")
             rest == QslPairs(Tail(fields))
         IN  IF f = <<>> \/ e = 0 \/ e = Len(f) THEN rest
             ELSE <<[name |-> Unquote(PlusToSpace(SubSeq(f, 1, e - 1))),
                     value |-> Unquote(PlusToSpace(From(f, e + 1)))]>> \o rest

ParseQsl(qs) == IF qs = <<>> THEN <<>> ELSE QslPairs(Split(qs, "&"))

\* parse_qs(qs).get(name, [""])[0]
ParseQsGetFirst(qs, name) ==
    LET pairs == ParseQsl(qs)
    IN  IF \E i \in 1..Len(pairs) : pairs[i].name = name
        THEN pairs[CHOOSE i \in 1..Len(pairs) :
                       pairs[i].name = name
                       /\ \A j \in 1..(i - 1) : pairs[j].name # name].value
        ELSE <<>>

(***************************************************************************)
(* The pages the backends answer with.  A page is the sequence of its      *)
(* result containers in document order; a container is                     *)
(*   title_elem  whether the element the parser takes the title from is    *)
(*               there (.result__a, the first a, the h3),                  *)
(*   link_elem   whether the element it takes the href from is there (the  *)
(*               same element for DuckDuckGo and Brave, the first a for    *)
(*               Google),                                                  *)
(*   title       get_text(strip=True) of the title element,                *)
(*   href        the href attribute of the link element, "" when missing,  *)
(*   snippets    the snippet elements in document order, each with its     *)
(*               class and its stripped text.                              *)
(***************************************************************************)
HTTP == <<"h", "t", "t", "p">>
UDDG == <<"u", "d", "d", "g">>
UDDG_EQ == <<"u", "d", "d", "g", "=">>

\* the target urls DuckDuckGo's redirect links carry
TargetA == <<"h", "t", "t", "p", "s", ":", "/", "/", "a">>
TargetB == <<"h", "t", "t", "p", ":", "/", "/", "b", "?", "c", "=", "1">>
Targets == {TargetA, TargetB}

\* the percent-encoding under which a redirect link carries its target
RECURSIVE Quote(_)
Quote(s) ==
    IF s = <<>> THEN <<>>
    ELSE (CASE s[1] = ":" -> <<"%", "3", "A">>
            [] s[1] = "/" -> <<"%", "2", "F">>
            [] s[1] = "?" -> <<"%", "3", "F">>
            [] s[1] = "&" -> <<"%", "2", "6">>
            [] s[1] = "=" -> <<"%", "3", "D">>
            [] s[1] = "#" -> <<"%", "2", "3">>
            [] OTHER -> <<s[1]>>) \o Quote(Tail(s))

\* the shapes of a redirect link: what stands before and after uddg=<target>
WrapperShapes ==
    { [pre |-> <<"/", "/", "d", "/", "l", "/", "?">>,
       post |-> <<"&", "r", "u", "t", "=", "x">>],
      [pre |-> <<"/", "l", "/", "?", "r", "=", "x", "&">>,
       post |-> <<"#", "f">>] }

Wrap(w, t) == w.pre \o UDDG_EQ \o Quote(t) \o w.post

\* the hrefs of the DuckDuckGo fixtures
WrappedA == Wrap([pre |-> <<"/", "/", "d", "/", "l", "/", "?">>,
                  post |-> <<"&", "r", "u", "t", "=", "x">>], TargetA)
WrappedB == Wrap([pre |-> <<"/", "l", "/", "?", "r", "=", "x", "&">>,
                  post |-> <<"#", "f">>], TargetB)
\* an absolute link that is no redirect
RawHref == <<"h", "t", "t", "p", ":", "/", "/", "c">>
\* a relative link
RelativeHref == <<"/", "r", "e", "l">>
\* a relative link to a file whose name starts with http
HttpNamedHref == <<"h", "t", "t", "p", ".", "h", "t", "m">>
\* a redirect link whose uddg parameter is blank
BlankUddgHref == <<"/", "l", "/", "?", "u", "d", "d", "g", "=">>
\* a redirect link whose host is a broken IPv6 literal
BadHostHref == <<"/", "/", "[", "/", "?", "u", "d", "d", "g", "=", "h", "t", "t", "p">>
\* an absolute link with uddg= in its fragment only
FragmentHref == <<"h", "t", "t", "p", ":", "/", "/", "e", "#", "u", "d", "d", "g", "=", "1">>

SnippetText == <<"s", "n">>

Block(te, le, t, h, sn) ==
    [title_elem |-> te, link_elem |-> le, title |-> t, href |-> h, snippets |-> sn]

DuckDuckGoBlocks ==
    { Block(TRUE, TRUE, "A", WrappedA, <<[class |-> "result__snippet", text |-> SnippetText]>>),
      Block(TRUE, TRUE, "B", WrappedB, <<>>),
      Block(TRUE, TRUE, "C", RawHref, <<>>),
      Block(TRUE, TRUE, "R", RelativeHref, <<>>),
      Block(TRUE, TRUE, "H", HttpNamedHref, <<>>),
      Block(TRUE, TRUE, "U", BlankUddgHref, <<>>),
      Block(TRUE, TRUE, "V", BadHostHref, <<>>),
      Block(TRUE, TRUE, "F", FragmentHref, <<>>),
      Block(TRUE, TRUE, "N", <<>>, <<>>),
      Block(FALSE, FALSE, "", <<>>, <<[class |-> "result__snippet", text |-> SnippetText]>>) }

BraveBlocks ==
    { Block(TRUE, TRUE, "A", TargetA, <<[class |-> "snippet-description", text |-> SnippetText]>>),
      Block(TRUE, TRUE, "D", RawHref, <<[class |-> "snippet-description", text |-> <<>>],
                                        [class |-> "snippet-content", text |-> SnippetText]>>),
      Block(TRUE, TRUE, "E", RawHref, <<[class |-> "snippet-content", text |-> SnippetText],
                                        [class |-> "snippet-description", text |-> <<>>]>>),
      Block(TRUE, TRUE, "R", RelativeHref, <<>>),
      Block(FALSE, FALSE, "", <<>>, <<>>) }

GoogleBlocks ==
    { Block(TRUE, TRUE, "A", TargetA, <<[class |-> "VwiC3b", text |-> SnippetText]>>),
      Block(TRUE, TRUE, "", RawHref, <<[class |-> "st", text |-> SnippetText]>>),
      Block(TRUE, TRUE, "R", RelativeHref, <<>>),
      Block(FALSE, TRUE, "", RawHref, <<>>),
      Block(TRUE, FALSE, "G", <<>>, <<>>) }

\* every sequence of at most n elements of S
SeqsUpTo(S, n) == UNION {[1..m -> S] : m \in 0..n}

Backends == <<"duckduckgo", "brave", "google">>
BackendNames == {Backends[i] : i \in 1..Len(Backends)}

BlocksOf(backend) ==
    CASE backend = "duckduckgo" -> DuckDuckGoBlocks
      [] backend = "brave" -> BraveBlocks
      [] backend = "google" -> GoogleBlocks

\* the bodies a backend may answer with
Pages(backend) == SeqsUpTo(BlocksOf(backend), MaxBlocks)

(***************************************************************************)
(* The backend parsers.  A function of the code either returns a value or  *)
(* raises: [raised |-> FALSE, value |-> v] or [raised |-> TRUE, exc |-> e].*)
(***************************************************************************)
Return(v) == [raised |-> FALSE, value |-> v]
Raise(e) == [raised |-> TRUE, exc |-> e]

SearchResult(t, u, s) ==
    [title |-> t, url |-> u, snippet |-> s, date |-> None, last_updated |-> None]

\* select_one(selector): the first snippet element of one of the classes
SelectOne(snippets, classes) ==
    LET i == FindAny([j \in 1..Len(snippets) |-> snippets[j].class], classes, 1)
    IN  IF i > Len(snippets) THEN None ELSE Some(snippets[i])

\* snippet_elem.get_text(strip=True) if snippet_elem else ""
SnippetOf(snippet_elem) ==
    IF snippet_elem = None THEN <<>> ELSE TheValue(snippet_elem).text

\* the url search_duckduckgo takes from an href: the uddg parameter of a
\* link that holds "uddg=", the href itself otherwise
ActualUrl(href) ==
    IF href # <<>> /\ Contains(href, UDDG_EQ)
    THEN IF UrlparseRaises(href)
         THEN Raise([type |-> "ValueError"])
         ELSE Return(ParseQsGetFirst(UrlQuery(href), UDDG))
    ELSE Return(href)

\* the test that lets a candidate url into the results
UrlAccepted(url) == url # <<>> /\ StartsWith(url, HTTP)

\* the loop of search_duckduckgo over soup.select(".result")
RECURSIVE DuckDuckGoLoop(_, _, _, _)
DuckDuckGoLoop(divs, i, results, limit) ==
    IF i > Len(divs) THEN Return(results)
    ELSE LET result_div == divs[i]
             snippet_elem == SelectOne(result_div.snippets, {"result__snippet"})
             actual == ActualUrl(result_div.href)
         IN  IF ~result_div.title_elem
             THEN DuckDuckGoLoop(divs, i + 1, results, limit)
             ELSE IF actual.raised THEN actual
             ELSE IF ~UrlAccepted(actual.value)
             THEN DuckDuckGoLoop(divs, i + 1, results, limit)
             ELSE LET appended == Append(results,
                          SearchResult(result_div.title, actual.value,
                                       SnippetOf(snippet_elem)))
                  IN  IF Len(appended) >= limit THEN Return(appended)
                      ELSE DuckDuckGoLoop(divs, i + 1, appended, limit)

ParseDuckDuckGo(body, limit) == DuckDuckGoLoop(body, 1, <<>>, limit)

\* the loop of search_brave over soup.select("[data-type='web']")
RECURSIVE BraveLoop(_, _, _, _)
BraveLoop(divs, i, results, limit) ==
    IF i > Len(divs) THEN Return(results)
    ELSE LET result_div == divs[i]
             snippet_elem == SelectOne(result_div.snippets,
                                       {"snippet-description", "snippet-content"})
         IN  IF ~result_div.title_elem
             THEN BraveLoop(divs, i + 1, results, limit)
             ELSE IF ~StartsWith(result_div.href, HTTP)
             THEN BraveLoop(divs, i + 1, results, limit)
             ELSE LET appended == Append(results,
                          SearchResult(result_div.title, result_div.href,
                                       SnippetOf(snippet_elem)))
                  IN  IF Len(appended) >= limit THEN Return(appended)
                      ELSE BraveLoop(divs, i + 1, appended, limit)

ParseBrave(body, limit) == BraveLoop(body, 1, <<>>, limit)

\* the loop of search_google over soup.select(".g")
RECURSIVE GoogleLoop(_, _, _, _)
GoogleLoop(divs, i, results, limit) ==
    IF i > Len(divs) THEN Return(results)
    ELSE LET g == divs[i]
             snippet_elem == SelectOne(g.snippets, {"VwiC3b", "st"})
         IN  IF ~g.title_elem \/ ~g.link_elem
             THEN GoogleLoop(divs, i + 1, results, limit)
             ELSE IF ~StartsWith(g.href, HTTP)
             THEN GoogleLoop(divs, i + 1, results, limit)
             ELSE LET appended == Append(results,
                          SearchResult(g.title, g.href, SnippetOf(snippet_elem)))
                  IN  IF Len(appended) >= limit THEN Return(appended)
                      ELSE GoogleLoop(divs, i + 1, appended, limit)

ParseGoogle(body, limit) == GoogleLoop(body, 1, <<>>, limit)

Parse(backend, body, limit) ==
    CASE backend = "duckduckgo" -> ParseDuckDuckGo(body, limit)
      [] backend = "brave" -> ParseBrave(body, limit)
      [] backend = "google" -> ParseGoogle(body, limit)

(***************************************************************************)
(* Exceptions.  Every exception of the model is an Exception of Python;    *)
(* HTTPException is FastAPI's, the others come from httpx (a failed fetch, *)
(* a status that is not 2xx) and from urllib.parse.                        *)
(***************************************************************************)
ExceptionTypes == {"HTTPStatusError", "ValueError", "HTTPException"}

HTTPException(code) == [type |-> "HTTPException", status_code |-> code]

\* a handler for httpx's errors only
CatchesHttpOnly(exc) == exc.type = "HTTPStatusError"

\* a handler that is not there
CatchesNothing(exc) == FALSE

\* the generic handler alone, without `except HTTPException: raise`
EndpointExceptGeneric(exc) == 500

\* `except Exception` around each backend call in search_web
SearchWebCatches(exc) == exc.type \in ExceptionTypes

\* `except Exception` in fetch_and_extract
FetchAndExtractCatches(exc) == exc.type \in ExceptionTypes

\* the except clauses of search_endpoint: the status the request ends with
EndpointExcept(exc) ==
    IF exc.type = "HTTPException" THEN exc.status_code ELSE 500

(***************************************************************************)
(* The state of the process and of one /search request.                    *)
(***************************************************************************)
VARIABLES
    MAX_PAGE_CHARS,  \* the character budget, read once at process start
    pc,              \* where the request is
    k,               \* query parameter k
    max_results,     \* query parameter max_results, None when not given
    limit,           \* search_endpoint's limit
    attempt,         \* the backend search_web is at: an index of Backends
    calls,           \* the backends invoked so far, in order
    state,           \* each backend's state in the fallback chain
    body,            \* resp.text of the backend function that last ran
    parsed,          \* what that backend function returned or raised
    results,         \* the results list of search_web and search_endpoint
    returned,        \* what search_web returned or raised, as it was then
    idx,             \* the position of the enrichment loop in results
    fetched,         \* the urls fetch_and_extract was called with, in order
    text,            \* what the last fetch_and_extract returned or raised
    extracts,        \* what fetch_and_extract returned for each result so far
    enriched,        \* search_endpoint's enriched list
    status,          \* the HTTP status of the response, 0 while none
    response         \* the results of the 200 response

\* Two /search requests in flight in the same process, against one fixture.
VARIABLES
    fixture,         \* what every backend and every page answers, fixed
    params,          \* each request's query parameters k and max_results
    at,              \* the await each request's coroutine is suspended at
    frames,          \* the local variables of each search_endpoint call
    out,             \* each request's HTTP status and results
    overlapped       \* a request has run while the other was in flight

svars == <<MAX_PAGE_CHARS, pc, k, max_results, limit, attempt, calls, state,
           body, parsed, results, returned, idx, fetched, text, extracts,
           enriched, status, response>>

pvars == <<fixture, params, at, frames, out, overlapped>>

vars == <<svars, pvars>>

\* the values MAX_PAGE_CHARS may be configured to: int() takes any integer
Budgets == (-1..MaxBudget) \cup {DefaultMaxPageChars}

\* the two requests of the second specification, not yet arrived
Requests == {1, 2}
NoFrame == [limit |-> 0, attempt |-> 0, results |-> <<>>, idx |-> 0,
            enriched |-> <<>>]
NoParams == [k |-> 2, max_results |-> None]
NoOut == [status |-> 0, response |-> <<>>]

PairIdle ==
    /\ params = [r \in Requests |-> NoParams]
    /\ at = [r \in Requests |-> "idle"]
    /\ frames = [r \in Requests |-> NoFrame]
    /\ out = [r \in Requests |-> NoOut]
    /\ overlapped = FALSE

\* no request of the second specification ever arrives
NoFixture == [search |-> <<>>, content |-> <<>>]

SingleIdle ==
    /\ pc = "idle"
    /\ k = 2
    /\ max_results = None
    /\ limit = 0
    /\ attempt = 0
    /\ calls = <<>>
    /\ state = [b \in BackendNames |-> "NotTried"]
    /\ body = <<>>
    /\ parsed = Return(<<>>)
    /\ results = <<>>
    /\ returned = Return(<<>>)
    /\ idx = 0
    /\ fetched = <<>>
    /\ text = Return(None)
    /\ extracts = <<>>
    /\ enriched = <<>>
    /\ status = 0
    /\ response = <<>>

Init ==
    /\ MAX_PAGE_CHARS \in Budgets
    /\ SingleIdle
    /\ fixture = NoFixture
    /\ PairIdle

\* a limit that is always k
LimitIgnoresMaxResults(mr, kk) == kk

\* limit = max_results or k
Limit(mr, kk) == IF mr = None \/ mr = Some(0) THEN kk ELSE TheValue(mr)

\* a request arrives: search_endpoint up to the first fetch of search_web
SearchEndpoint ==
    /\ pc = "idle"
    /\ \E kk \in 1..MaxK, mr \in {None} \cup {Some(n) : n \in 1..MaxK} :
          /\ k' = kk
          /\ max_results' = mr
          /\ limit' = Limit(mr, kk)
    /\ results' = <<>>
    /\ attempt' = 1
    /\ pc' = "search"
    /\ UNCHANGED <<MAX_PAGE_CHARS, calls, state, body, parsed, returned, idx,
                   text, extracts, enriched, status, response,
                   fetched>>
    /\ UNCHANGED pvars

\* a fetch without its timeout, on a backend that never answers
FetchNeverReturns(b) == {}

\* what the fetch of a backend's page may end with
FetchOutcomes(b) ==
    {Raise([type |-> "HTTPStatusError"])} \cup {Return(p) : p \in Pages(Backends[b])}

\* one backend function, from its fetch to its return
SearchBackend(b) ==
    /\ pc = "search"
    /\ attempt = b
    /\ calls' = Append(calls, Backends[b])
    /\ state' = [state EXCEPT ![Backends[b]] = "Trying"]
    /\ \E o \in FetchOutcomes(b) :
          IF o.raised
          THEN body' = <<>> /\ parsed' = o
          ELSE body' = o.value /\ parsed' = Parse(Backends[b], o.value, limit)
    /\ pc' = "returned"
    /\ UNCHANGED <<MAX_PAGE_CHARS, k, max_results, limit, attempt, results,
                   returned, idx, text, extracts, enriched, status, response,
                   fetched>>
    /\ UNCHANGED pvars

SearchDuckDuckGo == SearchBackend(1)
SearchBrave == SearchBackend(2)
SearchGoogle == SearchBackend(3)

\* a chain that tries the failed backend again
SameAttempt(b) == b

\* search_web goes on to the try block of the next backend
NextAttempt(b) == b + 1

\* a chain that never returns early
ShortCircuitsNever(res) == FALSE

\* `if results:` after a backend call: search_web returns what it got
ShortCircuits(res) == res # <<>>

\* search_web after backend b has returned or raised: one try block and, when
\* it falls through after the last one, the final return
SearchWebTry(b) ==
    /\ pc = "returned"
    /\ attempt = b
    /\ body' = <<>>
    /\ parsed' = Return(<<>>)
    /\ IF parsed.raised /\ ~SearchWebCatches(parsed.exc)
       THEN /\ returned' = parsed
            /\ state' = [state EXCEPT ![Backends[b]] = "FailedError"]
            /\ pc' = "search_web_returned"
            /\ UNCHANGED <<results, attempt>>
       ELSE /\ results' = IF parsed.raised THEN results ELSE parsed.value
            /\ state' = [state EXCEPT ![Backends[b]] =
                             IF parsed.raised THEN "FailedError"
                             ELSE IF parsed.value # <<>> THEN "Succeeded"
                             ELSE "FailedEmpty"]
            /\ IF (~parsed.raised /\ ShortCircuits(parsed.value)) \/ b = Len(Backends)
               THEN /\ returned' = Return(results')
                    /\ pc' = "search_web_returned"
                    /\ attempt' = attempt
               ELSE /\ returned' = returned
                    /\ pc' = "search"
                    /\ attempt' = NextAttempt(b)
    /\ UNCHANGED <<MAX_PAGE_CHARS, k, max_results, limit, calls, idx, text,
                   extracts, enriched, status, response,
                   fetched>>
    /\ UNCHANGED pvars

SearchWebDuckDuckGo == SearchWebTry(1)
SearchWebBrave == SearchWebTry(2)
SearchWebGoogle == SearchWebTry(3)

\* search_endpoint after search_web: the 404, or the start of the enrichment
EndpointAfterSearch ==
    /\ pc = "search_web_returned"
    /\ IF returned.raised
       THEN /\ status' = EndpointExcept(returned.exc)
            /\ pc' = "done"
            /\ UNCHANGED <<enriched, idx>>
       ELSE IF results = <<>>
       THEN /\ status' = EndpointExcept(HTTPException(404))
            /\ pc' = "done"
            /\ UNCHANGED <<enriched, idx>>
       ELSE /\ enriched' = <<>>
            /\ idx' = 1
            /\ pc' = "fetch_and_extract"
            /\ status' = status
    /\ UNCHANGED <<MAX_PAGE_CHARS, k, max_results, limit, attempt, calls, state,
                   body, parsed, results, returned, text, extracts, response,
                   fetched>>
    /\ UNCHANGED pvars

\* the character i of a page's main text
PageChar(i) == <<"w", "x", "y", "z">>[((i - 1) % 4) + 1]
PageText(n) == [i \in 1..n |-> PageChar(i)]

\* what the fetch of a result's page and trafilatura.extract may end with: an
\* exception, or the extracted text, which may be None or empty
ContentOutcomes ==
    {Raise([type |-> "HTTPStatusError"]), Return(None)}
        \cup {Return(Some(PageText(n))) : n \in 0..MaxText}

\* fetch_and_extract, given how the fetch and the extraction ended
FetchAndExtract(o) ==
    IF o.raised
    THEN IF FetchAndExtractCatches(o.exc) THEN Return(None) ELSE o
    ELSE LET extracted == o.value
         IN  IF extracted = None \/ TheValue(extracted) = <<>>
             THEN Return(None)
             ELSE Return(Some(Slice(TheValue(extracted), MAX_PAGE_CHARS)))

\* text = await fetch_and_extract(item.url)
FetchAndExtractCall ==
    /\ pc = "fetch_and_extract"
    /\ idx <= Len(results)
    /\ fetched' = Append(fetched, results[idx].url)
    /\ \E o \in ContentOutcomes : text' = FetchAndExtract(o)
    /\ pc' = "extracted"
    /\ UNCHANGED <<MAX_PAGE_CHARS, k, max_results, limit, attempt, calls, state,
                   body, parsed, results, returned, idx, extracts, enriched,
                   status, response>>
    /\ UNCHANGED pvars

\* the test `text is not None`
TruthyNotNone(opt) == opt # None

\* `if text:`
Truthy(opt) == opt # None /\ TheValue(opt) # <<>>

\* the assignment without the test
EnrichUnconditional(item, t) ==
    [item EXCEPT !.snippet = IF t = None THEN <<>> ELSE TheValue(t)]

\* the item of the enrichment loop after `if text: item.snippet = text`
Enrich(item, t) ==
    IF Truthy(t) THEN [item EXCEPT !.snippet = TheValue(t)] ELSE item

\* a loop that stays at its item
SameItem(i) == i

\* `for item in results` moves to the next item
NextItem(i) == i + 1

\* an insert at the front
EnrichedPrepend(list, item) == <<item>> \o list

\* enriched.append(item)
EnrichedAppend(list, item) == Append(list, item)

\* the rest of one round of the enrichment loop; item is the object in results
EnrichItem ==
    /\ pc = "extracted"
    /\ IF text.raised
       THEN /\ status' = EndpointExcept(text.exc)
            /\ pc' = "done"
            /\ UNCHANGED <<results, enriched, idx, extracts>>
       ELSE /\ results' = [results EXCEPT ![idx] = Enrich(results[idx], text.value)]
            /\ enriched' = EnrichedAppend(enriched, results'[idx])
            /\ extracts' = Append(extracts, text.value)
            /\ idx' = NextItem(idx)
            /\ pc' = "fetch_and_extract"
            /\ status' = status
    /\ UNCHANGED <<MAX_PAGE_CHARS, k, max_results, limit, attempt, calls, state,
                   body, parsed, returned, text, response,
                   fetched>>
    /\ UNCHANGED pvars

\* return SearchResponse(results=enriched, id=...)
Respond ==
    /\ pc = "fetch_and_extract"
    /\ idx > Len(results)
    /\ status' = 200
    /\ response' = enriched
    /\ pc' = "done"
    /\ UNCHANGED <<MAX_PAGE_CHARS, k, max_results, limit, attempt, calls, state,
                   body, parsed, results, returned, idx, text, extracts,
                   enriched,
                   fetched>>
    /\ UNCHANGED pvars

Next ==
    \/ SearchEndpoint
    \/ SearchDuckDuckGo
    \/ SearchBrave
    \/ SearchGoogle
    \/ SearchWebDuckDuckGo
    \/ SearchWebBrave
    \/ SearchWebGoogle
    \/ EndpointAfterSearch
    \/ FetchAndExtractCall
    \/ EnrichItem
    \/ Respond

Spec == Init /\ [][Next]_vars

\* The event loop resumes a coroutine whose await has completed, and every
\* fetch completes: httpx is given timeout=20.0 or timeout=12.0, so a fetch
\* returns a body, fails or times out.  A step that can be taken is taken.
FairSpec == Spec /\ WF_vars(Next)

(***************************************************************************)
(* Two requests in one process.  Between two awaits a coroutine runs       *)
(* without interruption, so a request takes one step per await: from its   *)
(* arrival to the first backend fetch, from a fetch to the next fetch, and *)
(* from the last fetch to its response.  What a backend or a page answers  *)
(* is fixed before the requests arrive.                                    *)
(***************************************************************************)

\* the pages the backends may be fixed to serve for the query: none, or two
\* containers
PairPage(backend) ==
    IF backend = "duckduckgo"
    THEN <<Block(TRUE, TRUE, "A", WrappedA, <<[class |-> "result__snippet", text |-> SnippetText]>>),
           Block(TRUE, TRUE, "C", RawHref, <<>>)>>
    ELSE IF backend = "brave"
    THEN <<Block(TRUE, TRUE, "E", RawHref, <<[class |-> "snippet-content", text |-> SnippetText],
                                             [class |-> "snippet-description", text |-> <<>>]>>),
           Block(TRUE, TRUE, "A", TargetA, <<[class |-> "snippet-description", text |-> SnippetText]>>)>>
    ELSE <<Block(TRUE, TRUE, "A", TargetA, <<[class |-> "VwiC3b", text |-> SnippetText]>>),
           Block(TRUE, TRUE, "", RawHref, <<[class |-> "st", text |-> SnippetText]>>)>>

\* how a backend answers every fetch of the fixture
PairSearchOutcomes(backend) ==
    IF backend = "duckduckgo"
    THEN {Raise([type |-> "HTTPStatusError"]), Return(<<>>), Return(PairPage(backend))}
    ELSE IF backend = "brave"
    THEN {Raise([type |-> "HTTPStatusError"]), Return(PairPage(backend))}
    ELSE {Return(<<>>), Return(PairPage(backend))}

\* the urls of the fixture's results, and how their pages answer
PairUrls == {TargetA, RawHref}
PairContentOutcomes(url) ==
    IF url = TargetA
    THEN {Raise([type |-> "HTTPStatusError"]), Return(Some(PageText(MaxText)))}
    ELSE {Return(None), Return(Some(PageText(MaxText)))}

Fixtures ==
    {[search |-> [b \in BackendNames |->
                     IF b = "duckduckgo" THEN d ELSE IF b = "brave" THEN v ELSE g],
      content |-> [u \in PairUrls |-> IF u = TargetA THEN ca ELSE cr]] :
        d \in PairSearchOutcomes("duckduckgo"),
        v \in PairSearchOutcomes("brave"),
        g \in PairSearchOutcomes("google"),
        ca \in PairContentOutcomes(TargetA),
        cr \in PairContentOutcomes(RawHref)}

\* the budgets the process of the two requests may run with: one that cuts
\* the fixture's pages, and the default
PairBudgets == {MaxBudget, DefaultMaxPageChars}

PairInit ==
    /\ MAX_PAGE_CHARS \in PairBudgets
    /\ SingleIdle
    /\ fixture \in Fixtures
    /\ PairIdle

\* where a call of search_endpoint stands after a step: the await it is at,
\* its local variables, and its response once it has one
Suspended(a, f) == [at |-> a, frame |-> f, out |-> NoOut]
Finished(f, st, res) == [at |-> "done", frame |-> f, out |-> [status |-> st, response |-> res]]

\* search_endpoint from the arrival of the request to the first fetch
StartFrame(p) ==
    [limit |-> Limit(p.max_results, p.k), attempt |-> 1, results |-> <<>>,
     idx |-> 0, enriched |-> <<>>]

\* a list kept at module level: it still holds what finished requests appended
LeftoverList == out[1].response \o out[2].response

\* enriched: List[SearchResult] = []
NewList == <<>>

\* search_web once it has the results of its last try block, and
\* search_endpoint up to the first content fetch
AfterSearchWeb(f, res) ==
    IF res = <<>>
    THEN Finished([f EXCEPT !.results = res], EndpointExcept(HTTPException(404)), <<>>)
    ELSE Suspended("fetch_and_extract",
                   [f EXCEPT !.results = res, !.idx = 1, !.enriched = NewList])

\* search_web's try block of backend f.attempt, which returned or raised ret
AfterBackend(f, ret) ==
    IF ret.raised
    THEN IF ~SearchWebCatches(ret.exc)
         THEN Finished(f, EndpointExcept(ret.exc), <<>>)
         ELSE IF f.attempt = Len(Backends)
         THEN AfterSearchWeb(f, f.results)
         ELSE Suspended("search", [f EXCEPT !.attempt = NextAttempt(f.attempt)])
    ELSE IF ShortCircuits(ret.value) \/ f.attempt = Len(Backends)
    THEN AfterSearchWeb(f, ret.value)
    ELSE Suspended("search", [f EXCEPT !.results = ret.value,
                                       !.attempt = NextAttempt(f.attempt)])

\* from the end of the fetch of backend f.attempt, which ended with o, to the
\* next await or to the response
AfterBackendFetch(f, o) ==
    AfterBackend(f, IF o.raised THEN o ELSE Parse(Backends[f.attempt], o.value, f.limit))

\* the enrichment loop after a round: the next content fetch, or the response
AfterRound(g) ==
    IF g.idx > Len(g.results)
    THEN Finished(g, 200, g.enriched)
    ELSE Suspended("fetch_and_extract", g)

\* one round of the enrichment loop with the item it holds, enriched
AfterEnrich(f, item) ==
    AfterRound([f EXCEPT !.results[f.idx] = item,
                         !.enriched = EnrichedAppend(f.enriched, item),
                         !.idx = NextItem(f.idx)])

\* fetch_and_extract returned or raised t for item f.idx
AfterExtract(f, t) ==
    IF t.raised
    THEN Finished(f, EndpointExcept(t.exc), <<>>)
    ELSE AfterEnrich(f, Enrich(f.results[f.idx], t.value))

\* from the end of the content fetch of item f.idx, which ended with o, to the
\* next content fetch or to the response
AfterContentFetch(f, o) ==
    IF f.idx \notin 1..Len(f.results)
    THEN Finished(f, 200, f.enriched)
    ELSE AfterExtract(f, FetchAndExtract(o))

\* what the fixture answers to the fetch a suspended call is waiting for
Answer(a, f) ==
    IF a = "search"
    THEN fixture.search[Backends[f.attempt]]
    ELSE IF f.idx \in 1..Len(f.results)
    THEN fixture.content[f.results[f.idx].url]
    ELSE Return(None)

\* the step a suspended call takes when its fetch ends
Resume(a, f) ==
    IF a = "search"
    THEN AfterBackendFetch(f, Answer(a, f))
    ELSE AfterContentFetch(f, Answer(a, f))

\* one set of locals for all calls, as module-level variables would be
FrameShared(r) == 1

\* the locals of search_endpoint and search_web belong to the call: every
\* request has its own
Frame(r) == r

InFlight(r) == at[r] \in {"search", "fetch_and_extract"}

\* request r arrives
PairArrive(r) ==
    /\ at[r] = "idle"
    /\ \E kk \in 1..MaxK, mr \in {None, Some(1)} :
          /\ params' = [params EXCEPT ![r] = [k |-> kk, max_results |-> mr]]
          /\ frames' = [frames EXCEPT ![Frame(r)] = StartFrame(params'[r])]
    /\ at' = [at EXCEPT ![r] = "search"]
    /\ overlapped' = (overlapped \/ \E o \in Requests \ {r} : InFlight(o))
    /\ UNCHANGED <<fixture, out>>
    /\ UNCHANGED svars

\* the fetch request r awaits ends, and r runs to its next await or its end
PairResume(r) ==
    /\ InFlight(r)
    /\ \E step \in {Resume(at[r], frames[Frame(r)])} :
          /\ at' = [at EXCEPT ![r] = step.at]
          /\ frames' = [frames EXCEPT ![Frame(r)] = step.frame]
          /\ out' = [out EXCEPT ![r] = step.out]
    /\ overlapped' = (overlapped \/ \E o \in Requests \ {r} : InFlight(o))
    /\ UNCHANGED <<fixture, params>>
    /\ UNCHANGED svars

PairNext == \E r \in Requests : PairArrive(r) \/ PairResume(r)

PairSpec == PairInit /\ [][PairNext]_vars

(***************************************************************************)
(* The properties.                                                         *)
(***************************************************************************)
AllBackendsFailed == \A b \in BackendNames : state[b] \in {"FailedEmpty", "FailedError"}
SomeBackendSucceeded == \E b \in BackendNames : state[b] = "Succeeded"
SearchWebDone == pc \in {"search_web_returned", "fetch_and_extract", "extracted", "done"}

\* an absolute url of scheme http or https
IsAbsoluteHttpUrl(u) ==
    \/ StartsWith(u, HTTP \o <<":", "/", "/">>) /\ Len(u) > 7
    \/ StartsWith(u, HTTP \o <<"s", ":", "/", "/">>) /\ Len(u) > 8

\* C1: once a backend has yielded one or more results, search_web has returned
\* them and no backend after it in the priority order is ever invoked.
C1_PriorityOrder ==
    \A i \in 1..Len(Backends) :
        state[Backends[i]] = "Succeeded" =>
            /\ SearchWebDone
            /\ ~returned.raised
            /\ returned.value # <<>>
            /\ calls = SubSeq(Backends, 1, i)
            /\ \A j \in (i + 1)..Len(Backends) : state[Backends[j]] = "NotTried"

C1_Witness ==
    /\ pc = "done"
    /\ status = 200
    /\ state["duckduckgo"] = "Succeeded"
    /\ calls = <<"duckduckgo">>

\* C2: every result a parser returns has an absolute http(s) url, and a request
\* for which a backend parsed one or more results is answered with between 1
\* and limit results, limit in 1..10, each with an absolute http(s) url.
C2_AbsoluteUrls ==
    /\ (pc = "returned" /\ ~parsed.raised) =>
           \A i \in 1..Len(parsed.value) : IsAbsoluteHttpUrl(parsed.value[i].url)
    /\ (pc = "done" /\ SomeBackendSucceeded) =>
           /\ status = 200
           /\ limit \in 1..10
           /\ Len(response) \in 1..limit
           /\ \A i \in 1..Len(response) : IsAbsoluteHttpUrl(response[i].url)

\* C3: when all three backends parsed zero results the request ends with 404:
\* no enrichment starts, and the 404 is not turned into a 500.
C3_AllEmptyIs404 ==
    (\A b \in BackendNames : state[b] = "FailedEmpty") =>
        /\ pc \in {"search_web_returned", "done"}
        /\ pc = "done" => status = 404

C3_Witness ==
    /\ \A b \in BackendNames : state[b] = "FailedEmpty"
    /\ pc = "done"
    /\ status = 404

\* C4: search_web never raises, whatever the three backends do, and the list it
\* returns is empty when every backend failed.
C4_SearchWebNeverRaises ==
    SearchWebDone =>
        /\ ~returned.raised
        /\ AllBackendsFailed => returned.value = <<>>

C4_Witness ==
    /\ pc = "search_web_returned"
    /\ state["duckduckgo"] = "FailedError"
    /\ state["brave"] = "FailedEmpty"
    /\ state["google"] = "FailedError"
    /\ returned = Return(<<>>)

\* C5: an enriched result differs from the result search_web returned in its
\* snippet at most, and in its snippet only when fetch_and_extract returned
\* text for it, which is then the snippet.
C5_EnrichmentFrame ==
    /\ \A i \in 1..Len(enriched) :
           LET o == returned.value[i]
               e == enriched[i]
           IN  /\ e.url = o.url
               /\ e.title = o.title
               /\ e.date = o.date
               /\ e.last_updated = o.last_updated
               /\ extracts[i] = None => e.snippet = o.snippet
               /\ e.snippet # o.snippet => e.snippet \in extracts[i]
    /\ status = 200 => response = enriched

C5_Witness ==
    /\ status = 200
    /\ \E i \in 1..Len(response) :
           extracts[i] = None /\ response[i].snippet = SnippetText
    /\ \E i \in 1..Len(response) :
           extracts[i] # None /\ response[i].snippet # returned.value[i].snippet

\* C6: the text fetch_and_extract returns, and every snippet the enrichment
\* put in, is at most MAX_PAGE_CHARS characters long.
C6_WithinBudget ==
    /\ (pc = "extracted" /\ ~text.raised /\ text.value # None) =>
           Len(TheValue(text.value)) <= MAX_PAGE_CHARS
    /\ \A i \in 1..Len(enriched) :
           Truthy(extracts[i]) => Len(enriched[i].snippet) <= MAX_PAGE_CHARS

\* C7: the enriched list is, entry by entry and in order, the list search_web
\* returned, and the response holds all of it.
C7_SequencePreserved ==
    /\ Len(enriched) <= Len(returned.value)
    /\ \A i \in 1..Len(enriched) :
           [enriched[i] EXCEPT !.snippet = <<>>]
               = [returned.value[i] EXCEPT !.snippet = <<>>]
    /\ status = 200 =>
           /\ Len(response) = Len(returned.value)
           /\ \A i \in 1..Len(response) :
                  [response[i] EXCEPT !.snippet = <<>>]
                      = [returned.value[i] EXCEPT !.snippet = <<>>]

C7_Witness ==
    /\ status = 200
    /\ Len(response) = 2
    /\ response[1].title # response[2].title
    /\ extracts[1] = None
    /\ extracts[2] # None

\* C8: a finished request ended with 404 and no backend succeeded, or with 200
\* and the whole list of the backend that succeeded; never with 500.
C8_AllOrNothing ==
    pc = "done" =>
        \/ /\ status = 404
           /\ AllBackendsFailed
           /\ response = <<>>
        \/ /\ status = 200
           /\ SomeBackendSucceeded
           /\ returned.value # <<>>
           /\ Len(response) = Len(returned.value)

C8_Witness ==
    /\ pc = "done"
    /\ status = 200
    /\ state["duckduckgo"] = "FailedError"
    /\ state["brave"] = "FailedEmpty"
    /\ state["google"] = "Succeeded"
    /\ \E i \in 1..Len(extracts) : extracts[i] = None

\* C9: a DuckDuckGo container whose title href is a redirect link carrying a
\* target in its uddg parameter is parsed to a result with the decoded target
\* as its url, unless limit results were collected; no result has the
\* redirect link as its url.
C9_UrlUnwrapped ==
    (pc = "returned" /\ attempt = 1 /\ ~parsed.raised) =>
        \A i \in 1..Len(body), w \in WrapperShapes, t \in Targets :
            (body[i].title_elem /\ body[i].href = Wrap(w, t)) =>
                /\ \/ Len(parsed.value) >= limit
                   \/ \E j \in 1..Len(parsed.value) :
                          /\ parsed.value[j].url = t
                          /\ parsed.value[j].title = body[i].title
                /\ \A j \in 1..Len(parsed.value) :
                       parsed.value[j].url # body[i].href

C9_Witness ==
    /\ pc = "returned"
    /\ attempt = 1
    /\ ~parsed.raised
    /\ \E i \in 1..Len(body) : body[i].href = WrappedB
    /\ \E j \in 1..Len(parsed.value) : parsed.value[j].url = TargetB

\* what the parsers take for a well-formed container and for its url
WellFormed(backend, blk) ==
    blk.title_elem /\ (backend = "google" => blk.link_elem)

FinalUrl(backend, blk) ==
    IF backend = "duckduckgo"
    THEN IF ActualUrl(blk.href).raised THEN <<>> ELSE ActualUrl(blk.href).value
    ELSE blk.href

SnippetClasses(backend) ==
    CASE backend = "duckduckgo" -> {"result__snippet"}
      [] backend = "brave" -> {"snippet-description", "snippet-content"}
      [] backend = "google" -> {"VwiC3b", "st"}

\* the well-formed containers with a url that starts with http, in order
RECURSIVE WellFormedResults(_, _)
WellFormedResults(backend, blocks) ==
    IF blocks = <<>> THEN <<>>
    ELSE LET blk == Head(blocks)
         IN  (IF WellFormed(backend, blk) /\ UrlAccepted(FinalUrl(backend, blk))
              THEN <<SearchResult(blk.title, FinalUrl(backend, blk),
                                  SnippetOf(SelectOne(blk.snippets,
                                                      SnippetClasses(backend))))>>
              ELSE <<>>) \o WellFormedResults(backend, Tail(blocks))

\* C10: a parser never raises on a fetched page, and returns the first limit
\* of its well-formed containers with an http url, in document order.
C10_MalformedSkipped ==
    (pc = "returned" /\ ~(parsed.raised /\ parsed.exc.type = "HTTPStatusError")) =>
        /\ ~parsed.raised
        /\ parsed.value
               = LET all == WellFormedResults(Backends[attempt], body)
                 IN  SubSeq(all, 1, IF Len(all) < limit THEN Len(all) ELSE limit)

\* C13: the limit search_web and the parsers work with is max_results when it
\* is given and k otherwise, and is in 1..10.
C13_EffectiveLimit ==
    pc # "idle" =>
        LET effective == IF max_results # None THEN TheValue(max_results) ELSE k
        IN  /\ limit = effective
            /\ limit \in 1..10
            /\ (pc = "returned" /\ ~parsed.raised) => Len(parsed.value) <= effective

C13_Witness ==
    /\ pc = "returned"
    /\ k = 2
    /\ max_results = Some(1)
    /\ ~parsed.raised
    /\ Len(WellFormedResults(Backends[attempt], body)) = 2
    /\ Len(parsed.value) = 1

\* C14: the backends are invoked in the fixed order, each at most once; a
\* backend is invoked only after the one before it has failed, and at most
\* one attempt is under way.
C14_SequentialOnce ==
    /\ \E n \in 0..Len(Backends) : calls = SubSeq(Backends, 1, n)
    /\ \A i \in 1..Len(Backends) :
           state[Backends[i]] # "NotTried" <=> i <= Len(calls)
    /\ \A i \in 1..(Len(Backends) - 1) :
           state[Backends[i + 1]] # "NotTried" =>
               state[Backends[i]] \in {"FailedEmpty", "FailedError"}
    /\ Cardinality({b \in BackendNames : state[b] = "Trying"}) <= 1

C14_Witness ==
    /\ calls = Backends
    /\ state["duckduckgo"] = "FailedEmpty"
    /\ state["brave"] = "FailedError"
    /\ state["google"] = "Trying"

\* whether the query of an href has a parameter named uddg
HasUddgParam(href) ==
    LET fields == Split(UrlQuery(href), "&")
    IN  \E i \in 1..Len(fields) : StartsWith(fields[i], UDDG_EQ)

\* C15: a DuckDuckGo container whose title href has no uddg query parameter is
\* parsed with the href itself as its url: it gives a result with that url
\* when the href starts with http (unless limit results were collected), and
\* no result otherwise.
C15_RawHrefUsed ==
    (pc = "returned" /\ attempt = 1 /\ ~parsed.raised) =>
        \A i \in 1..Len(body) :
            (body[i].title_elem /\ ~HasUddgParam(body[i].href)) =>
                IF StartsWith(body[i].href, HTTP)
                THEN \/ Len(parsed.value) >= limit
                     \/ \E j \in 1..Len(parsed.value) :
                            /\ parsed.value[j].url = body[i].href
                            /\ parsed.value[j].title = body[i].title
                ELSE \A j \in 1..Len(parsed.value) :
                         parsed.value[j].url # body[i].href

\* C16: every result a parser returns, and every result of a response, has a
\* title that is not empty.
C16_TitleNonEmpty ==
    /\ (pc = "returned" /\ ~parsed.raised) =>
           \A j \in 1..Len(parsed.value) : parsed.value[j].title # ""
    /\ status = 200 => \A j \in 1..Len(response) : response[j].title # ""

\* the texts of the snippet elements of a container
SnippetTexts(blk, classes) ==
    {blk.snippets[n].text : n \in {m \in 1..Len(blk.snippets) :
                                       blk.snippets[m].class \in classes}}

\* C17: a Brave container that holds a snippet element with empty text and one
\* of the other class with text is parsed to a result whose snippet is that
\* text, whichever element comes first.
C17_FirstNonEmptySnippet ==
    (pc = "returned" /\ attempt = 2 /\ ~parsed.raised) =>
        \A i \in 1..Len(body) :
            LET blk == body[i]
                desc == SnippetTexts(blk, {"snippet-description"})
                cont == SnippetTexts(blk, {"snippet-content"})
            IN  (/\ blk.title_elem
                 /\ StartsWith(blk.href, HTTP)
                 /\ \/ desc = {<<>>} /\ cont = {SnippetText}
                    \/ cont = {<<>>} /\ desc = {SnippetText}) =>
                    \/ Len(parsed.value) >= limit
                    \/ \E j \in 1..Len(parsed.value) :
                           /\ parsed.value[j].title = blk.title
                           /\ parsed.value[j].snippet = SnippetText

\* C18: fetch_and_extract is called only after search_web returned a list that
\* is not empty, once per result and in the order of the results, each call
\* after the one before has returned; never on the way to a 404; a request
\* makes at most 3 search fetches and at most limit content fetches.
C18_ContentFetchOrder ==
    /\ Len(calls) <= 3
    /\ Len(fetched) <= limit
    /\ fetched # <<>> =>
           /\ pc \in {"fetch_and_extract", "extracted", "done"}
           /\ ~returned.raised
           /\ returned.value # <<>>
    /\ ~returned.raised =>
           /\ Len(fetched) <= Len(returned.value)
           /\ \A i \in 1..Len(fetched) : fetched[i] = returned.value[i].url
    /\ Len(fetched) = Len(extracts) + (IF pc = "extracted" THEN 1 ELSE 0)
    /\ status = 404 => fetched = <<>>
    /\ status = 200 => Len(fetched) = Len(response)

C18_Witness ==
    /\ status = 200
    /\ Len(fetched) = 2
    /\ fetched[1] # fetched[2]
    /\ Len(calls) = 3

\* C19: a result whose snippet is empty after the enrichment had an empty
\* snippet when search_web returned it; an extraction cut to the empty text
\* leaves the snippet as it was.
C19_NeverBlanks ==
    /\ \A i \in 1..Len(enriched) :
           /\ enriched[i].snippet = <<>> => returned.value[i].snippet = <<>>
           /\ extracts[i] = Some(<<>>) =>
                  enriched[i].snippet = returned.value[i].snippet
    /\ status = 200 =>
           \A i \in 1..Len(response) :
               response[i].snippet = <<>> => returned.value[i].snippet = <<>>

C19_Witness ==
    /\ status = 200
    /\ MAX_PAGE_CHARS = 0
    /\ \E i \in 1..Len(response) :
           extracts[i] = Some(<<>>) /\ response[i].snippet = SnippetText

\* C20: every request terminates: under FairSpec (every fetch eventually
\* returns, fails or times out) the request reaches one final outcome, 200,
\* 404 or 500, and keeps it; until then and after, it has made at most 3
\* backend attempts and at most one content fetch per result.
C20_Terminates ==
    /\ [](/\ Len(calls) <= Len(Backends)
          /\ Len(fetched) <= Len(results)
          /\ (pc = "done") = (status \in {200, 404, 500})
          /\ status \in {0, 200, 404, 500})
    /\ <>[](pc = "done" /\ status \in {200, 404, 500})

\* the longest request: three backend attempts, then a content fetch for each
\* of two results, then the 200
C20_Witness ==
    /\ pc = "done"
    /\ status = 200
    /\ Len(calls) = Len(Backends)
    /\ Len(results) = 2
    /\ Len(fetched) = 2

\* a call of search_endpoint run alone against the fixture, from where it
\* stands to its response
RECURSIVE Alone(_)
Alone(step) ==
    IF step.at = "done" THEN step.out ELSE Alone(Resume(step.at, step.frame))

\* the response of a request with parameters p when it is the only one
Solo(p) == Alone(Suspended("search", StartFrame(p)))

\* C11: two requests with the same parameters against the same fixture get the
\* same status and the same results list (the id, a fresh uuid4 of every
\* response, is not part of the comparison), whether one ran after the other
\* or both at once.
C11_Idempotent ==
    (at[1] = "done" /\ at[2] = "done" /\ params[1] = params[2])
        => (out[1].status = out[2].status /\ out[1].response = out[2].response)

\* two requests with the same parameters, the second after the first, both
\* answered with two enriched results
C11_Witness ==
    /\ at[1] = "done" /\ at[2] = "done"
    /\ params[1] = params[2]
    /\ ~overlapped
    /\ out[1].status = 200
    /\ Len(out[2].response) = 2
    /\ \E i \in 1..2 : out[2].response[i].snippet = PageText(MaxBudget)

\* C12: however the steps of two requests in flight interleave at their
\* awaits, a finished request has the status and the results it has when it
\* runs alone against the same fixture; and a request that is not in flight
\* has the locals and the response it had.
C12_Independent ==
    \A r \in Requests :
        /\ at[r] = "done" => out[r] = Solo(params[r])
        /\ at[r] = "idle" => (out[r] = NoOut /\ frames[r] = NoFrame)

\* two requests with different limits that were in flight together and got
\* different results
C12_Witness ==
    /\ overlapped
    /\ at[1] = "done" /\ at[2] = "done"
    /\ out[1].status = 200 /\ out[2].status = 200
    /\ Len(out[1].response) = 1
    /\ Len(out[2].response) = 2

====
